---- MODULE Spec2Model ----
(***************************************************************************)
(* Order-fulfilment saga of the commerce backend: the Inventory Ledger     *)
(* (inventory-service), the Order Coordinator (order-service) and the      *)
(* Payment Gateway Adapter (payment-service).  Every await of a handler is *)
(* an interleaving point; the computation between two awaits is one step.  *)
(*                                                                         *)
(* Fault model: a write to the orders / order_items / payments tables may  *)
(* return an error, a fetch() to the inventory-service may reject before   *)
(* the request is delivered, and XADD may fail.  The ledger's stored       *)
(* procedures and Redis SET NX are atomic and reliable.                    *)
(***************************************************************************)
EXTENDS Integers, Sequences, FiniteSets, TLC

\* ------------------------------------------------------------------ bounds
NumReq == 2
MaxItems == 2
MaxQty == 3
MaxStock == 5
NumHooks == 2
MaxRzp == 1
MaxSigLen == 2
NumSagaReq == 1
NumWorkers == 2
MaxEntries == 2
BatchCount == 2
MaxFaults == 1
NumStored == 2
MaxTime == 2
TokenTtl == 1

ReqIds == 1..NumReq
Products == {"P1", "P2"}
Quantities == (MaxQty - 1)..MaxQty
StockLevels == {MaxStock}
Users == {"u1"}
HookIds == 1..NumHooks
PaymentIds == {"pay_1", "pay_2"}
Events == {"payment.captured", "payment.failed", "payment.authorized"}
AmountsPaise == {20000}
HexChars == {"a", "b"}
SigChars == HexChars \cup {"z"}
SigStrings == UNION {[1..n -> SigChars] : n \in 0..MaxSigLen}
Topics == {"ORDER", "PAYMENT"}
Workers == 1..NumWorkers
Requesters == Users \cup {"u2"}
OrderIds == 1..(NumStored + 1)
StoredTotals == {100, 150}

\* products table: P3 exists in the catalogue but is not active
ProductIds == Products \cup {"P3"}
products ==
  [p \in ProductIds |->
     CASE p = "P1" -> [price |-> 100, discount_price |-> {}, is_active |-> TRUE]
       [] p = "P2" -> [price |-> 80, discount_price |-> {50}, is_active |-> TRUE]
       [] OTHER    -> [price |-> 30, discount_price |-> {}, is_active |-> FALSE]]

\* the ids a client may send: "P0" is in no row of the products table
RequestedIds == ProductIds \cup {"P0"}

Item == [productId : RequestedIds, quantity : Quantities]
ItemLists == UNION {[1..n -> Item] : n \in 1..MaxItems}

VARIABLES
  inv,      \* inventory table: product_id -> [stock_quantity, reserved_quantity]
  orders,   \* orders table with its order_items, indexed by order id
  stream,   \* Redis streams: topic -> sequence of appended entries
  payments, \* payments table
  idem,     \* Redis keys payment:webhook:<id> that are set
  rzp,      \* number of Razorpay orders created so far
  req,      \* the in-flight POST /v1/orders requests and their locals
  hook,     \* the in-flight POST /v1/webhooks/payment requests and their locals
  held,     \* history: quantity each request was granted and has not given back
  stock0,   \* history: stock_quantity at start
  settled   \* history: <<order, "deduct" | "release">> applied by the ledger for a webhook

vars == <<inv, orders, stream, payments, idem, rzp, req, hook, held, stock0, settled>>

\* the event log as the notification workers see it
VARIABLES
  log,       \* Redis stream of each topic: sequence of [id, type]
  grp,       \* consumer group of each topic: [created, last_delivered]
  pel,       \* pending entries list: <<topic, id, worker>> delivered and not acked
  worker,    \* each notification process: position in its loop and its batch
  faults,    \* number of failures (read, handler, ack) injected so far
  delivered, \* history: <<topic, id, worker>> handed out by XREADGROUP
  handled,   \* history: <<topic, id, worker>> whose handler returned
  threw,     \* history: <<topic, id, worker>> whose handler threw
  acks       \* history: <<topic, id, worker>> acknowledged with XACK

cvars == <<log, grp, pel, worker, faults, delivered, handled, threw, acks>>

\* one client or one service calling an endpoint and the answer it gets
VARIABLES
  app,      \* the deployment that owns the orders table: "services" or "api"
  answer    \* the last request answered and its response

avars == <<app, answer>>

\* ---------------------------------------------------------------- helpers
Max(a, b) == IF a >= b THEN a ELSE b

RECURSIVE SumSeq(_)
SumSeq(s) == IF s = <<>> THEN 0 ELSE Head(s) + SumSeq(Tail(s))

RECURSIVE SumOver(_, _)
SumOver(S, f) ==
  IF S = {} THEN 0
  ELSE LET x == CHOOSE y \in S : TRUE IN f[x] + SumOver(S \ {x}, f)

\* ------------------------------------------------- ledger stored procedures
\* reserve_inventory: one statement that checks and increments
ReserveRpc(rec, q) ==
  IF rec.reserved_quantity + q <= rec.stock_quantity
  THEN [error |-> FALSE, rec |-> [rec EXCEPT !.reserved_quantity = @ + q]]
  ELSE [error |-> TRUE, rec |-> rec]

\* release_inventory: floor-clamped decrement of reserved_quantity
ReleaseRpc(rec, q) ==
  [rec EXCEPT !.reserved_quantity = Max(0, @ - q)]

\* deduct_inventory: stock_quantity -= q; reserved_quantity -= q
DeductRpc(rec, q) ==
  [rec EXCEPT !.stock_quantity = @ - q, !.reserved_quantity = @ - q]

\* ------------------------------------------------------ inventory-service
\* faulty variant: the error of the rpc is not looked at
ReserveSucceededAlways(error) == TRUE

\* repository reserveInventory: "return !error"
ReserveSucceeded(error) == ~error

\* controller: status pushed for one item
ReserveStatus(success) == IF success THEN "RESERVED" ELSE "INSUFFICIENT_STOCK"

\* faulty variant: 200 whatever the statuses
ReserveResponseAlwaysOk(results) == TRUE

\* controller: failed = results.filter(status !== "RESERVED"); 409 if any
ReserveResponseOk(results) ==
  \A i \in 1..Len(results) : results[i] = "RESERVED"

\* ---------------------------------------------------------- order-service
\* faulty variant: the is_active filter is left out
FetchListedProducts(items) ==
  {items[i].productId : i \in 1..Len(items)} \cap ProductIds

\* .in("id", productIds).eq("is_active", true): the active rows among the ids
FetchProducts(items) ==
  {p \in {items[i].productId : i \in 1..Len(items)} \cap ProductIds :
     products[p].is_active}

\* productsError || !products || products.length !== items.length
ProductsValid(items) == Cardinality(FetchProducts(items)) = Len(items)

\* discount_price ?? price
UnitPrice(p) ==
  IF products[p].discount_price = {} THEN products[p].price
  ELSE CHOOSE d \in products[p].discount_price : TRUE

OrderItems(items) ==
  [i \in 1..Len(items) |->
     [product_id |-> items[i].productId,
      quantity |-> items[i].quantity,
      unit_price |-> UnitPrice(items[i].productId),
      total_price |-> UnitPrice(items[i].productId) * items[i].quantity]]

TotalAmount(items) ==
  SumSeq([i \in 1..Len(items) |-> OrderItems(items)[i].total_price])

\* faulty variant: only the first item is released
ReleaseFirstItemOnly(items) == SubSeq(items, 1, 1)

\* the items sent with the compensating /v1/inventory/release call
ReleaseItems(items) == items

IdleReq == [pc |-> "idle", userId |-> "", items |-> <<>>, idx |-> 0,
            results |-> <<>>, orderId |-> 0, outcome |-> "", status |-> 0]

\* the response is sent; the request body is all that is kept of the locals
Finish(r, outcome, status, orderId) ==
  req' = [req EXCEPT ![r] = [IdleReq EXCEPT !.pc = "done", !.outcome = outcome,
                                            !.status = status, !.orderId = orderId,
                                            !.items = req[r].items]]

\* POST /v1/orders: validation and the price snapshot
CreateOrderStart(r) ==
  /\ req[r].pc = "idle"
  /\ \E u \in Users, items \in ItemLists :
       IF ProductsValid(items)
       THEN req' = [req EXCEPT ![r] = [IdleReq EXCEPT !.pc = "reserve", !.userId = u,
                                                    !.items = items, !.idx = 1]]
       ELSE Finish(r, "INVALID_PRODUCTS", 400, 0)
  /\ UNCHANGED <<inv, orders, stream, payments, idem, rzp, hook, held, stock0, settled, cvars, avars>>

\* callInventory("/v1/inventory/reserve"): fetch rejects, nothing delivered
ReserveCallFails(r) ==
  /\ req[r].pc = "reserve" /\ req[r].idx = 1
  /\ Finish(r, "UNHANDLED", 500, 0)
  /\ UNCHANGED <<inv, orders, stream, payments, idem, rzp, hook, held, stock0, settled, cvars, avars>>

\* inventory controller's loop, one rpc per item; after the last item the
\* controller answers 200 or 409 and createOrder goes on or gives up
ReserveItem(r) ==
  /\ req[r].pc = "reserve"
  /\ LET it == req[r].items[req[r].idx]
         p == it.productId
         out == ReserveRpc(inv[p], it.quantity)
         st == ReserveStatus(ReserveSucceeded(out.error))
         results == Append(req[r].results, st)
     IN /\ inv' = [inv EXCEPT ![p] = out.rec]
        /\ held' = IF st = "RESERVED"
                   THEN [held EXCEPT ![r][p] = @ + it.quantity]
                   ELSE held
        /\ IF req[r].idx < Len(req[r].items)
           THEN req' = [req EXCEPT ![r].idx = @ + 1, ![r].results = results]
           ELSE IF ReserveResponseOk(results)
                THEN req' = [req EXCEPT ![r].pc = "insertOrder", ![r].idx = 0,
                                        ![r].results = results]
                ELSE Finish(r, "INSUFFICIENT_STOCK", 409, 0)
  /\ UNCHANGED <<orders, stream, payments, idem, rzp, hook, stock0, settled, cvars, avars>>

\* callInventory("/v1/inventory/reserve"): the ledger runs the request to its
\* last item but fetch rejects before an answer is read (connection lost, or
\* the runtime's own limit, since no timeout or signal is passed); createOrder
\* throws and the controller answers 500
ReserveAnswerLost(r) ==
  /\ req[r].pc = "reserve" /\ req[r].idx = Len(req[r].items)
  /\ LET it == req[r].items[req[r].idx]
         p == it.productId
         out == ReserveRpc(inv[p], it.quantity)
     IN /\ inv' = [inv EXCEPT ![p] = out.rec]
        /\ held' = IF ReserveSucceeded(out.error)
                   THEN [held EXCEPT ![r][p] = @ + it.quantity]
                   ELSE held
  /\ Finish(r, "UNHANDLED", 500, 0)
  /\ UNCHANGED <<orders, stream, payments, idem, rzp, hook, stock0, settled, cvars, avars>>

\* insert into orders; on error go and release
InsertOrder(r) ==
  /\ req[r].pc = "insertOrder"
  /\ \E orderError \in BOOLEAN :
       IF orderError
       THEN /\ req' = [req EXCEPT ![r].pc = "release", ![r].idx = 1]
            /\ UNCHANGED orders
       ELSE /\ orders' = Append(orders,
                 [user_id |-> req[r].userId, status |-> "pending",
                  total_amount |-> TotalAmount(req[r].items),
                  order_items |-> <<>>,
                  razorpay_order_id |-> 0, razorpay_payment_id |-> 0])
            /\ req' = [req EXCEPT ![r].pc = "insertItems", ![r].orderId = Len(orders) + 1]
  /\ UNCHANGED <<inv, stream, payments, idem, rzp, hook, held, stock0, settled, cvars, avars>>

\* callInventory("/v1/inventory/release"): fetch rejects, nothing delivered
ReleaseCallFails(r) ==
  /\ req[r].pc = "release" /\ req[r].idx = 1
  /\ Finish(r, "UNHANDLED", 500, 0)
  /\ UNCHANGED <<inv, orders, stream, payments, idem, rzp, hook, held, stock0, settled, cvars, avars>>

\* inventory controller's release loop; then CREATE_FAILED is returned
ReleaseItem(r) ==
  /\ req[r].pc = "release"
  /\ LET it == ReleaseItems(req[r].items)[req[r].idx]
         p == it.productId
     IN /\ inv' = [inv EXCEPT ![p] = ReleaseRpc(inv[p], it.quantity)]
        /\ held' = [held EXCEPT ![r][p] = Max(0, @ - it.quantity)]
        /\ IF req[r].idx < Len(ReleaseItems(req[r].items))
           THEN req' = [req EXCEPT ![r].idx = @ + 1]
           ELSE Finish(r, "CREATE_FAILED", 500, 0)
  /\ UNCHANGED <<orders, stream, payments, idem, rzp, hook, stock0, settled, cvars, avars>>

\* insert into order_items; the result is not looked at
InsertItems(r) ==
  /\ req[r].pc = "insertItems"
  /\ \E itemsError \in BOOLEAN :
       orders' = IF itemsError THEN orders
                 ELSE [orders EXCEPT ![req[r].orderId].order_items =
                                        OrderItems(req[r].items)]
  /\ req' = [req EXCEPT ![r].pc = "publish"]
  /\ UNCHANGED <<inv, stream, payments, idem, rzp, hook, held, stock0, settled, cvars, avars>>

\* faulty variant: a failing XADD leaves publishEvent as an exception
PublishRethrows(xaddFails) == IF xaddFails THEN "threw" ELSE "returned"

\* publishEvent: try { await redis.xadd(...) } catch { write to stderr }
PublishResult(xaddFails) == "returned"

\* faulty variant: the event names the request, not the inserted row
OrderCreatedEventOfRequest(r) ==
  [type |-> "ORDER_CREATED", orderId |-> r, userId |-> req[r].userId,
   totalAmount |-> TotalAmount(req[r].items)]

\* { type: "ORDER_CREATED", orderId: order.id, userId, totalAmount }
OrderCreatedEvent(r) ==
  [type |-> "ORDER_CREATED", orderId |-> req[r].orderId, userId |-> req[r].userId,
   totalAmount |-> TotalAmount(req[r].items)]

\* publishEvent(ORDER_CREATED): XADD, errors swallowed; then 201
PublishOrderCreated(r) ==
  /\ req[r].pc = "publish"
  /\ \E xaddFails \in BOOLEAN :
       /\ stream' = IF xaddFails THEN stream
                    ELSE [stream EXCEPT !["ORDER"] = Append(@, OrderCreatedEvent(r))]
       /\ IF PublishResult(xaddFails) = "returned"
          THEN Finish(r, "CREATED", 201, req[r].orderId)
          ELSE Finish(r, "UNHANDLED", 500, 0)
  /\ UNCHANGED <<inv, orders, payments, idem, rzp, hook, held, stock0, settled, cvars, avars>>

\* -------------------------------------------------------- payment-service
\* POST /v1/payments/initiate: the order of this user, pending; a new Razorpay
\* order is created and its id stored on the order row.  The client names an
\* order id that a 201 of POST /v1/orders gave it.
CreatePaymentIntent(u, o) ==
  /\ o \in 1..Len(orders)
  /\ \E r \in ReqIds : req[r].pc = "done" /\ req[r].orderId = o
  /\ orders[o].user_id = u
  /\ orders[o].status = "pending"
  /\ rzp < MaxRzp
  /\ rzp' = rzp + 1
  /\ orders' = [orders EXCEPT ![o].razorpay_order_id = rzp + 1]
  /\ UNCHANGED <<inv, stream, payments, idem, req, hook, held, stock0, settled, cvars, avars>>

\* crypto.createHmac("sha256", secret).update(rawBody).digest("hex")
ExpectedSig(event) ==
  IF event = "payment.captured" THEN <<"a", "b">> ELSE <<"b", "a">>

\* Buffer.from(s, "hex"): whole pairs of hex digits up to the first bad one
RECURSIVE HexDecode(_)
HexDecode(s) ==
  IF Len(s) < 2 \/ s[1] \notin HexChars \/ s[2] \notin HexChars THEN <<>>
  ELSE <<(<<s[1], s[2]>>)>> \o HexDecode(SubSeq(s, 3, Len(s)))

\* crypto.timingSafeEqual: a RangeError when the byte lengths differ
TimingSafeEqual(a, b) ==
  IF Len(a) # Len(b) THEN "throw" ELSE IF a = b THEN "equal" ELSE "differ"

\* handleWebhook (controller): !signature, then timingSafeEqual on the buffers
VerifyController(sig, expected) ==
  IF sig = <<>> THEN "missing"
  ELSE LET t == TimingSafeEqual(HexDecode(sig), HexDecode(expected))
       IN IF t = "throw" THEN "throw" ELSE IF t = "equal" THEN "ok" ELSE "mismatch"

\* POST /v1/webhooks/payment (index.ts): the lengths are compared first
VerifyInline(sig, expected) ==
  IF sig = <<>> THEN "missing"
  ELSE IF Len(HexDecode(sig)) # Len(HexDecode(expected)) THEN "mismatch"
  ELSE IF TimingSafeEqual(HexDecode(sig), HexDecode(expected)) = "equal" THEN "ok"
  ELSE "mismatch"

\* faulty variant: SET without NX, always "OK"
SetWithoutNX(keys, k) == [result |-> "OK", keys |-> keys \cup {k}]

\* redis.set(key, "1", "EX", 86400, "NX")
SetNX(keys, k) ==
  [result |-> IF k \in keys THEN "nil" ELSE "OK", keys |-> keys \cup {k}]

\* faulty variant: the guard lets every delivery through
IsUniqueAlways(result) == TRUE

\* checkIdempotency: result === "OK"
IsUnique(result) == result = "OK"

IdleHook == [pc |-> "idle", event |-> "", id |-> "", order_id |-> 0, amount |-> 0,
             orderId |-> 0, items |-> <<>>, idx |-> 0,
             status |-> 0, result |-> "", acted |-> FALSE, emitted |-> FALSE]

\* the answer to the provider; the payment id and event stay for the record
Respond(h, status, result) ==
  hook' = [hook EXCEPT ![h] = [IdleHook EXCEPT !.pc = "done", !.status = status,
                                  !.result = result, !.event = hook[h].event,
                                  !.id = hook[h].id, !.acted = hook[h].acted]]

\* signature check, JSON.parse and the idempotency guard
WebhookReceive(h) ==
  /\ hook[h].pc = "idle"
  /\ \E ev \in Events, sig \in SigStrings, inline \in BOOLEAN :
       LET v == IF inline THEN VerifyInline(sig, ExpectedSig(ev))
                ELSE VerifyController(sig, ExpectedSig(ev))
       IN IF v = "missing"
          THEN Respond(h, 400, "Missing signature") /\ UNCHANGED idem
          ELSE IF v = "mismatch"
          THEN Respond(h, 400, "Invalid signature") /\ UNCHANGED idem
          ELSE IF v = "throw"
          THEN Respond(h, 500, "RangeError") /\ UNCHANGED idem
          ELSE \E id \in PaymentIds, oid \in 1..(MaxRzp + 1), amt \in AmountsPaise :
                 LET nx == SetNX(idem, id)
                 IN /\ idem' = nx.keys
                    /\ hook' = [hook EXCEPT ![h] =
                         IF IsUnique(nx.result)
                         THEN [IdleHook EXCEPT !.pc = "lookup", !.event = ev, !.id = id,
                                               !.order_id = oid, !.amount = amt]
                         ELSE [IdleHook EXCEPT !.pc = "done", !.event = ev, !.id = id,
                                               !.status = 200,
                                               !.result = "already_processed"]]
  /\ UNCHANGED <<inv, orders, stream, payments, rzp, req, held, stock0, settled, cvars, avars>>

\* faulty variant: the lookup without its razorpay_order_id filter
FindOrderUnfiltered(order_id) ==
  {o \in 1..Len(orders) : TRUE}

\* select id, order_items(...) where razorpay_order_id = payment.order_id, single()
FindOrder(order_id) ==
  {o \in 1..Len(orders) : orders[o].razorpay_order_id = order_id}

WebhookLookup(h) ==
  /\ hook[h].pc = "lookup"
  /\ LET found == FindOrder(hook[h].order_id)
     IN IF hook[h].event \notin {"payment.captured", "payment.failed"}
           \/ Cardinality(found) # 1
        THEN Respond(h, 200, "processed")
        ELSE LET o == CHOOSE x \in found : TRUE
             IN hook' = [hook EXCEPT ![h].pc = "update", ![h].orderId = o,
                                     ![h].items = orders[o].order_items]
  /\ UNCHANGED <<inv, orders, stream, payments, idem, rzp, req, held, stock0, settled, cvars, avars>>

\* update orders set status; the result is not looked at
WebhookUpdateOrder(h) ==
  /\ hook[h].pc = "update"
  /\ \E updateError \in BOOLEAN :
       /\ orders' =
            IF updateError THEN orders
            ELSE IF hook[h].event = "payment.captured"
            THEN [orders EXCEPT ![hook[h].orderId].status = "confirmed",
                                ![hook[h].orderId].razorpay_payment_id = hook[h].id]
            ELSE [orders EXCEPT ![hook[h].orderId].status = "failed"]
       /\ hook' = [hook EXCEPT
            ![h].pc = IF hook[h].event = "payment.captured" THEN "payment"
                      ELSE "inventory",
            ![h].idx = 1,
            ![h].acted = @ \/ ~updateError]
  /\ UNCHANGED <<inv, stream, payments, idem, rzp, req, held, stock0, settled, cvars, avars>>

\* PaymentRecordStatus
PaymentStatuses == {"initiated", "successful", "failed", "refunded"}

\* insert into payments; the result is not looked at
WebhookInsertPayment(h) ==
  /\ hook[h].pc = "payment"
  /\ \E insertError \in BOOLEAN :
       /\ payments' =
            IF insertError THEN payments
            ELSE Append(payments,
                   [order_id |-> hook[h].orderId, razorpay_payment_id |-> hook[h].id,
                    amount |-> hook[h].amount \div 100, status |-> "captured"])
       /\ hook' = [hook EXCEPT ![h].pc = "inventory", ![h].acted = @ \/ ~insertError]
  /\ UNCHANGED <<inv, orders, stream, idem, rzp, req, held, stock0, settled, cvars, avars>>

\* callInventory (payment-service): fetch rejects, the handler's catch sends 500
WebhookInventoryCallFails(h) ==
  /\ hook[h].pc = "inventory" /\ hook[h].idx = 1
  /\ Respond(h, 500, "INTERNAL_ERROR")
  /\ UNCHANGED <<inv, orders, stream, payments, idem, rzp, req, held, stock0, settled, cvars, avars>>

\* faulty variant: both webhook paths call /v1/inventory/release
InventoryPathRelease(event) == "release"

\* processPaymentCaptured calls /v1/inventory/deduct, processPaymentFailed
\* calls /v1/inventory/release
InventoryPath(event) ==
  IF event = "payment.captured" THEN "deduct" ELSE "release"

\* inventory controller: 400 on an empty item list, else one rpc per item;
\* payment-service does not look at the answer
WebhookInventoryItem(h) ==
  /\ hook[h].pc = "inventory"
  /\ IF hook[h].items = <<>>
     THEN /\ hook' = [hook EXCEPT ![h].pc = "publish"]
          /\ UNCHANGED <<inv, settled>>
     ELSE LET it == hook[h].items[hook[h].idx]
              p == it.product_id
          IN /\ inv' = [inv EXCEPT ![p] =
                          IF InventoryPath(hook[h].event) = "deduct"
                          THEN DeductRpc(inv[p], it.quantity)
                          ELSE ReleaseRpc(inv[p], it.quantity)]
             /\ settled' = settled \cup
                  {<<hook[h].orderId, InventoryPath(hook[h].event)>>}
             /\ hook' = [hook EXCEPT
                  ![h].pc = IF hook[h].idx < Len(hook[h].items) THEN "inventory"
                            ELSE "publish",
                  ![h].idx = @ + 1,
                  ![h].acted = TRUE]
  /\ UNCHANGED <<orders, stream, payments, idem, rzp, req, held, stock0, cvars, avars>>

\* publishEvent(PAYMENT_CAPTURED | PAYMENT_FAILED), errors swallowed; then 200
PaymentEvent(h) ==
  IF hook[h].event = "payment.captured"
  THEN [type |-> "PAYMENT_CAPTURED", orderId |-> hook[h].orderId,
        paymentId |-> hook[h].id]
  ELSE [type |-> "PAYMENT_FAILED", orderId |-> hook[h].orderId]

WebhookPublish(h) ==
  /\ hook[h].pc = "publish"
  /\ \E xaddFails \in BOOLEAN :
       /\ stream' = IF xaddFails THEN stream
                    ELSE [stream EXCEPT !["PAYMENT"] = Append(@, PaymentEvent(h))]
       /\ IF PublishResult(xaddFails) = "returned"
          THEN hook' = [hook EXCEPT ![h] =
                 [IdleHook EXCEPT !.pc = "done", !.status = 200, !.result = "processed",
                                  !.event = hook[h].event, !.id = hook[h].id,
                                  !.acted = hook[h].acted \/ ~xaddFails,
                                  !.emitted = ~xaddFails]]
          ELSE Respond(h, 500, "INTERNAL_ERROR")
  /\ UNCHANGED <<inv, orders, payments, idem, rzp, req, held, stock0, settled, cvars, avars>>

\* EX 86400: Redis drops the key a day after it was set; by then every
\* delivery of that payment id has been answered
KeyExpires(id) ==
  /\ id \in idem
  /\ \A h \in HookIds : hook[h].id = id => hook[h].pc = "done"
  /\ idem' = idem \ {id}
  /\ UNCHANGED <<inv, orders, stream, payments, rzp, req, hook, held, stock0, settled, cvars, avars>>

\* ----------------------------------------- event log, notification workers
\* the event types published on each topic
TopicTypes(t) ==
  IF t = "ORDER" THEN {"ORDER_CREATED"} ELSE {"PAYMENT_CAPTURED", "PAYMENT_FAILED"}

LastId(entries) == IF entries = <<>> THEN 0 ELSE entries[Len(entries)].id

\* faulty variant: the id of the newest entry is used again
XAddSameId(entries, type) ==
  Append(entries, [id |-> Max(1, LastId(entries)), type |-> type])

\* redis.xadd(stream, "*", ...fields): appended under an id above the last one
XAdd(entries, type) ==
  Append(entries, [id |-> LastId(entries) + 1, type |-> type])

\* publishEvent: XADD; a failure is written to stderr and swallowed
PublishEvent(t) ==
  /\ Len(log[t]) < MaxEntries
  /\ \E type \in TopicTypes(t), xaddFails \in BOOLEAN :
       log' = IF xaddFails THEN log ELSE [log EXCEPT ![t] = XAdd(@, type)]
  /\ UNCHANGED <<grp, pel, worker, faults, delivered, handled, threw, acks, vars, avars>>

\* XGROUP CREATE stream group "0" MKSTREAM; BUSYGROUP is swallowed
GroupCreate(g) ==
  IF g.created THEN g ELSE [created |-> TRUE, last_delivered |-> 0]

IdleWorker == [pc |-> "start", batch |-> <<>>, idx |-> 0]

EnsureConsumerGroups(c) ==
  /\ worker[c].pc = "start"
  /\ grp' = [t \in Topics |-> GroupCreate(grp[t])]
  /\ worker' = [worker EXCEPT ![c].pc = "read"]
  /\ UNCHANGED <<log, pel, faults, delivered, handled, threw, acks, vars, avars>>

\* COUNT n
Take(s, n) == SubSeq(s, 1, IF Len(s) < n THEN Len(s) ELSE n)

\* faulty variant: every entry is handed out again, as a read from the start
AllEntries(entries, last) == Take(entries, BatchCount)

\* XREADGROUP ... STREAMS t ">": the entries never handed to the group so far
NewEntries(entries, last) ==
  Take(SelectSeq(entries, LAMBDA e : e.id > last), BatchCount)

\* <<topic, id>> of the entries of one stream's answer
Tagged(t, entries) == [i \in 1..Len(entries) |-> <<t, entries[i].id>>]

\* the loop's xreadgroup answered with entries: they enter the pending list
\* under this worker's name (an answer of null changes nothing)
XReadGroup(c) ==
  /\ worker[c].pc = "read"
  /\ LET got == [t \in Topics |->
                   IF grp[t].created
                   THEN NewEntries(log[t], grp[t].last_delivered) ELSE <<>>]
         batch == Tagged("ORDER", got["ORDER"]) \o Tagged("PAYMENT", got["PAYMENT"])
         given == {<<batch[i][1], batch[i][2], c>> : i \in 1..Len(batch)}
     IN /\ batch # <<>>
        /\ grp' = [t \in Topics |->
                     IF got[t] = <<>> THEN grp[t]
                     ELSE [grp[t] EXCEPT !.last_delivered = Max(@, LastId(got[t]))]]
        /\ pel' = pel \cup given
        /\ delivered' = delivered \cup given
        /\ worker' = [worker EXCEPT ![c] = [pc |-> "handle", batch |-> batch, idx |-> 1]]
  /\ UNCHANGED <<log, faults, handled, threw, acks, vars, avars>>

\* xreadgroup throws: "Worker loop error", then a one second pause
XReadGroupFails(c) ==
  /\ worker[c].pc = "read"
  /\ faults < MaxFaults
  /\ faults' = faults + 1
  /\ worker' = [worker EXCEPT ![c].pc = "backoff"]
  /\ UNCHANGED <<log, grp, pel, delivered, handled, threw, acks, vars, avars>>

Backoff(c) ==
  /\ worker[c].pc = "backoff"
  /\ worker' = [worker EXCEPT ![c].pc = "read"]
  /\ UNCHANGED <<log, grp, pel, faults, delivered, handled, threw, acks, vars, avars>>

\* faulty variant: whatever is left of the batch is dropped
DropBatch(c) == [worker EXCEPT ![c] = [pc |-> "read", batch |-> <<>>, idx |-> 0]]

\* the next entry of the batch, or back to xreadgroup
NextEntry(c) ==
  IF worker[c].idx < Len(worker[c].batch)
  THEN [worker EXCEPT ![c].pc = "handle", ![c].idx = @ + 1]
  ELSE [worker EXCEPT ![c] = [pc |-> "read", batch |-> <<>>, idx |-> 0]]

\* faulty variant: xack whatever the handler did
AckAlways(outcome) == TRUE

\* try { await handleEvent(obj); await redis.xack(...) } catch { log }
AckAfter(outcome) == outcome = "returned"

\* handleEvent for the current entry: it returns (mail sent, or no address
\* found) or it throws
HandleEvent(c) ==
  /\ worker[c].pc = "handle"
  /\ LET e == worker[c].batch[worker[c].idx]
         d == <<e[1], e[2], c>>
     IN \E outcome \in {"returned", "threw"} :
          /\ outcome = "threw" => faults < MaxFaults
          /\ faults' = IF outcome = "threw" THEN faults + 1 ELSE faults
          /\ handled' = IF outcome = "returned" THEN handled \cup {d} ELSE handled
          /\ threw' = IF outcome = "threw" THEN threw \cup {d} ELSE threw
          /\ worker' = IF AckAfter(outcome) THEN [worker EXCEPT ![c].pc = "ack"]
                       ELSE NextEntry(c)
  /\ UNCHANGED <<log, grp, pel, delivered, acks, vars, avars>>

\* redis.xack(stream, group, id): the entry leaves the pending list; when xack
\* throws the same catch logs it and the entry stays pending
XAck(c) ==
  /\ worker[c].pc = "ack"
  /\ LET e == worker[c].batch[worker[c].idx]
     IN \E ackFails \in BOOLEAN :
          /\ ackFails => faults < MaxFaults
          /\ faults' = IF ackFails THEN faults + 1 ELSE faults
          /\ pel' = IF ackFails THEN pel
                    ELSE {x \in pel : <<x[1], x[2]>> # e}
          /\ acks' = IF ackFails THEN acks ELSE acks \cup {<<e[1], e[2], c>>}
  /\ worker' = NextEntry(c)
  /\ UNCHANGED <<log, grp, delivered, handled, threw, vars, avars>>

\* --------------------------------------------------- reading one's order
NoAnswer == [op |-> "none"]

NotFound == [status |-> 404, error |-> "NOT_FOUND"]

\* faulty variant: the user_id filter is left out
GetOrderByIdOnly(tbl, id, userId) == {o \in 1..Len(tbl) : o = id}

\* order-service getOrderById: .eq("id", id).eq("user_id", userId).single()
GetOrderById(tbl, id, userId) ==
  {o \in 1..Len(tbl) : o = id /\ tbl[o].user_id = userId}

\* api getOrderById(orderId, userId?): "if (userId) query.eq('user_id', userId)";
\* userId is {} when the argument is undefined
ApiGetOrderById(tbl, id, userId) ==
  {o \in 1..Len(tbl) : o = id /\ (userId = {} \/ tbl[o].user_id \in userId)}

\* api getOrderDetails: getOrderById(orderId, isAdmin ? undefined : userId)
GetOrderDetails(tbl, id, userId, isAdmin) ==
  ApiGetOrderById(tbl, id, IF isAdmin THEN {} ELSE {userId})

\* controllers: null (PGRST116, no row) -> 404 NOT_FOUND, else 200 with the row
GetOrderResponse(tbl, found) ==
  IF found = {} THEN NotFound
  ELSE [status |-> 200, data |-> tbl[CHOOSE o \in found : TRUE]]

\* GET /v1/orders/:id as each deployment answers it
GetOrderAnswer(id, u, isAdmin) ==
  GetOrderResponse(orders,
    IF app = "api" THEN GetOrderDetails(orders, id, u, isAdmin)
    ELSE GetOrderById(orders, id, u))

GetOrder ==
  /\ \E id \in OrderIds, u \in Requesters, isAdmin \in BOOLEAN :
       answer' = [op |-> "GetOrder", id |-> id, requester |-> u,
                  isAdmin |-> isAdmin, response |-> GetOrderAnswer(id, u, isAdmin)]
  /\ UNCHANGED <<vars, cvars, app>>

\* ------------------------------------------------------- payment intent
\* faulty variant: the order is loaded by id alone
GetOrderForPaymentAnyUser(tbl, orderId, userId) ==
  {o \in 1..Len(tbl) : o = orderId}

\* getOrderForPayment: .eq("id", orderId).eq("user_id", userId).single()
GetOrderForPayment(tbl, orderId, userId) ==
  {o \in 1..Len(tbl) : o = orderId /\ tbl[o].user_id = userId}

\* Math.round(order.total_amount * 100)
AmountInPaise(total_amount) == total_amount * 100

\* createPaymentIntent (payment-service) up to the Razorpay call
IntentCheck(tbl, orderId, userId) ==
  IF GetOrderForPayment(tbl, orderId, userId) = {} THEN NotFound
  ELSE IF tbl[orderId].status # "pending"
  THEN [status |-> 409, error |-> "INVALID_STATE"]
  ELSE [status |-> 200,
        data |-> [amount |-> AmountInPaise(tbl[orderId].total_amount),
                  currency |-> "INR"]]

\* initiatePayment (api) up to the insert of the payment record
ApiIntentCheck(tbl, orderId, userId) ==
  IF ApiGetOrderById(tbl, orderId, {userId}) = {} THEN NotFound
  ELSE IF tbl[orderId].payment_status = "paid"
  THEN [status |-> 409, error |-> "ALREADY_PAID"]
  ELSE [status |-> 200,
        data |-> [amount |-> tbl[orderId].total_amount, currency |-> "INR"]]

\* POST /v1/payments/initiate as each deployment answers it; created is FALSE
\* when the Razorpay call or the insert of the payment record fails
InitiatePayment ==
  /\ \E o \in OrderIds, u \in Requesters, created \in BOOLEAN :
       LET check == IF app = "api" THEN ApiIntentCheck(orders, o, u)
                    ELSE IntentCheck(orders, o, u)
           ok == check.status = 200 /\ created
       IN /\ check.status = 200 => rzp < MaxRzp
          /\ answer' = [op |-> "CreatePaymentIntent", id |-> o, requester |-> u,
                        response |-> IF check.status = 200 /\ ~created
                                     THEN [status |-> 500, error |-> "INTERNAL_ERROR"]
                                     ELSE check]
          /\ rzp' = IF ok THEN rzp + 1 ELSE rzp
          /\ orders' = IF ok /\ app # "api"
                       THEN [orders EXCEPT ![o].razorpay_order_id = rzp + 1]
                       ELSE orders
          /\ payments' = IF ok /\ app = "api"
                         THEN Append(payments,
                                [order_id |-> o, amount |-> orders[o].total_amount,
                                 status |-> "initiated"])
                         ELSE payments
  /\ UNCHANGED <<inv, stream, idem, req, hook, held, stock0, settled, cvars, app>>

\* ------------------------------------------- internal service token
\* what x-internal-token may carry: the part before the "." is empty, is
\* not the base64url of a JSON text, or is a payload {service, requestId, iat, exp}
Encodings ==
  {[kind |-> "empty", exp |-> 0], [kind |-> "junk", exp |-> 0]}
    \cup {[kind |-> "json", exp |-> e] : e \in 1..(MaxTime - 1)}

\* crypto.createHmac("sha256", secret).update(encoded).digest("hex")
TokenSig(encoded) ==
  IF encoded.kind = "json" /\ encoded.exp % 2 = 1 THEN <<"a", "b">>
  ELSE IF encoded.kind = "json" THEN <<"b", "a">>
  ELSE <<"a", "a">>

NoToken == [present |-> FALSE, encoded |-> [kind |-> "empty", exp |-> 0],
            signature |-> <<>>]

InternalTokens ==
  {NoToken} \cup [present : {TRUE}, encoded : Encodings, signature : SigStrings]

\* signInternalToken: exp = iat + 60, `${encoded}.${signature}`
SignInternalToken(now) ==
  LET encoded == [kind |-> "json", exp |-> now + TokenTtl]
  IN [present |-> TRUE, encoded |-> encoded, signature |-> TokenSig(encoded)]

\* faulty variant: payload.exp is not looked at
VerifyIgnoringExpiry(token, now) ==
  IF token.encoded.kind = "empty" \/ token.signature = <<>>
  THEN "INVALID_INTERNAL_TOKEN"
  ELSE LET t == TimingSafeEqual(HexDecode(token.signature),
                                HexDecode(TokenSig(token.encoded)))
       IN IF t = "throw" THEN "RangeError"
          ELSE IF t = "differ" THEN "INVALID_INTERNAL_TOKEN"
          ELSE IF token.encoded.kind = "junk" THEN "SyntaxError"
          ELSE "ok"

\* verifyInternalToken: what it throws, or "ok" when it returns the payload
VerifyInternalToken(token, now) ==
  IF token.encoded.kind = "empty" \/ token.signature = <<>>
  THEN "INVALID_INTERNAL_TOKEN"
  ELSE LET t == TimingSafeEqual(HexDecode(token.signature),
                                HexDecode(TokenSig(token.encoded)))
       IN IF t = "throw" THEN "RangeError"
          ELSE IF t = "differ" THEN "INVALID_INTERNAL_TOKEN"
          ELSE IF token.encoded.kind = "junk" THEN "SyntaxError"
          ELSE IF now > token.encoded.exp THEN "INTERNAL_TOKEN_EXPIRED"
          ELSE "ok"

\* the signature parts a caller may send in place of the issued one: one
\* character longer than a digest at most
SentSignatures == UNION {[1..n -> SigChars] : n \in 0..(MaxSigLen + 1)}

\* the payload parts a caller may send in place of the issued one: the same
\* JSON with a later exp, text that is not JSON, or nothing before the dot.
\* Their digests differ from the issued payload's digest.
SentPayloads(encoded) ==
  {[kind |-> "json", exp |-> encoded.exp + 1],
   [kind |-> "junk", exp |-> 0],
   [kind |-> "empty", exp |-> 0]}

\* a service signs a token at time iat
SignToken ==
  /\ answer.op \in {"none", "verified"}
  /\ \E iat \in 1..MaxTime :
       answer' = [op |-> "signed", iat |-> iat, token |-> SignInternalToken(iat),
                  altered |-> FALSE, now |-> 0, message |-> ""]
  /\ UNCHANGED <<vars, cvars, app>>

\* the token is changed on its way: another signature part, or another
\* payload part under the issued signature
AlterToken ==
  /\ answer.op = "signed"
  /\ \/ \E sig \in SentSignatures \ {answer.token.signature} :
          answer' = [answer EXCEPT !.op = "altered", !.altered = TRUE,
                                   !.token.signature = sig]
     \/ \E encoded \in SentPayloads(answer.token.encoded) :
          answer' = [answer EXCEPT !.op = "altered", !.altered = TRUE,
                                   !.token.encoded = encoded]
  /\ UNCHANGED <<vars, cvars, app>>

\* the callee runs verifyInternalToken on what arrived, at time now
VerifyToken ==
  /\ answer.op \in {"signed", "altered"}
  /\ \E now \in 1..(MaxTime + TokenTtl + 1) :
       answer' = [answer EXCEPT !.op = "verified", !.now = now,
                                !.message = VerifyInternalToken(answer.token, now)]
  /\ UNCHANGED <<vars, cvars, app>>

\* requireInternal: 401 without a token and 401 whatever verifyInternalToken throws
RequireInternal(token, now) ==
  IF ~token.present THEN "Internal token required"
  ELSE IF VerifyInternalToken(token, now) = "ok" THEN "next"
  ELSE "Invalid internal token"

LedgerOps == {"reserve", "release", "deduct", "read"}

\* the product the requests below are about
LedgerProducts == {"P1"}

\* one request to /v1/inventory/... for one item, at time now; a deduct is
\* asked for a quantity that is reserved
LedgerRequest ==
  /\ \E op \in LedgerOps, token \in InternalTokens, now \in 1..MaxTime,
        p \in LedgerProducts, q \in Quantities :
       LET gate == RequireInternal(token, now)
           out == ReserveRpc(inv[p], q)
       IN /\ op = "deduct" => inv[p].reserved_quantity >= q
          /\ inv' = IF gate # "next" \/ op = "read" THEN inv
                    ELSE IF op = "reserve" THEN [inv EXCEPT ![p] = out.rec]
                    ELSE IF op = "release"
                    THEN [inv EXCEPT ![p] = ReleaseRpc(inv[p], q)]
                    ELSE [inv EXCEPT ![p] = DeductRpc(inv[p], q)]
          /\ answer' = [op |-> op, token |-> token, now |-> now,
                        status |-> IF gate # "next" THEN 401
                                   ELSE IF op = "reserve"
                                           /\ ~ReserveSucceeded(out.error)
                                   THEN 409
                                   ELSE 200,
                        message |-> gate]
  /\ UNCHANGED <<orders, stream, payments, idem, rzp, req, hook, held, stock0,
                 settled, cvars, app>>

\* ------------------------------------------------------------------- specs
Init ==
  /\ inv \in [ProductIds -> {[stock_quantity |-> s, reserved_quantity |-> 0] :
                               s \in StockLevels}]
  /\ orders = <<>>
  /\ stream = [t \in {"ORDER", "PAYMENT"} |-> <<>>]
  /\ payments = <<>>
  /\ idem = {}
  /\ rzp = 0
  /\ req = [r \in ReqIds |-> IdleReq]
  /\ hook = [h \in HookIds |-> IdleHook]
  /\ held = [r \in ReqIds |-> [p \in ProductIds |-> 0]]
  /\ stock0 = [p \in Products |-> inv[p].stock_quantity]
  /\ settled = {}
  /\ log = [t \in Topics |-> <<>>]
  /\ grp = [t \in Topics |-> [created |-> FALSE, last_delivered |-> 0]]
  /\ pel = {}
  /\ worker = [c \in Workers |-> IdleWorker]
  /\ faults = 0
  /\ delivered = {}
  /\ handled = {}
  /\ threw = {}
  /\ acks = {}
  /\ app = "services"
  /\ answer = NoAnswer

OrderStep(r) ==
    \/ CreateOrderStart(r)
    \/ ReserveCallFails(r)
    \/ ReserveItem(r)
    \/ ReserveAnswerLost(r)
    \/ InsertOrder(r)
    \/ ReleaseCallFails(r)
    \/ ReleaseItem(r)
    \/ InsertItems(r)
    \/ PublishOrderCreated(r)

NextOrder == \E r \in ReqIds : OrderStep(r)

SpecOrder == Init /\ [][NextOrder]_vars

NextPayment ==
  \/ \E u \in Users, o \in 1..NumReq : CreatePaymentIntent(u, o)
  \/ \E h \in HookIds :
       \/ WebhookReceive(h)
       \/ WebhookLookup(h)
       \/ WebhookUpdateOrder(h)
       \/ WebhookInsertPayment(h)
       \/ WebhookInventoryCallFails(h)
       \/ WebhookInventoryItem(h)
       \/ WebhookPublish(h)

Next == (\E r \in 1..NumSagaReq : OrderStep(r)) \/ NextPayment

Spec == Init /\ [][Next]_vars

WorkerStep(c) ==
    \/ EnsureConsumerGroups(c)
    \/ XReadGroup(c)
    \/ XReadGroupFails(c)
    \/ Backoff(c)
    \/ HandleEvent(c)
    \/ XAck(c)

NextConsumer ==
  \/ \E t \in Topics : PublishEvent(t)
  \/ \E c \in Workers : WorkerStep(c)

SpecConsumer == Init /\ [][NextConsumer]_cvars

\* each worker is a process looping for ever
SpecConsumerFair == SpecConsumer /\ \A c \in Workers : WF_cvars(WorkerStep(c))

\* the orders table as each deployment fills it: order-service and
\* payment-service write status pending | confirmed | failed; the api writes
\* status and payment_status together, pending | paid
StoredRows(a) ==
  IF a = "api"
  THEN {[user_id |-> u, status |-> st, payment_status |-> st, total_amount |-> t,
         order_items |-> <<>>] :
          u \in Requesters, st \in {"pending", "paid"}, t \in StoredTotals}
  ELSE {[user_id |-> u, status |-> st, total_amount |-> t, order_items |-> <<>>,
         razorpay_order_id |-> 0, razorpay_payment_id |-> 0] :
          u \in Requesters, st \in {"pending", "confirmed", "failed"},
          t \in StoredTotals}

\* clients asking about orders that are already stored
InitAccess ==
  /\ inv \in [ProductIds -> {[stock_quantity |-> s, reserved_quantity |-> 0] :
                               s \in StockLevels}]
  /\ app \in {"services", "api"}
  /\ orders \in [1..NumStored -> StoredRows(app)]
  /\ stream = [t \in {"ORDER", "PAYMENT"} |-> <<>>]
  /\ payments = <<>>
  /\ idem = {}
  /\ rzp = 0
  /\ req = [r \in ReqIds |-> IdleReq]
  /\ hook = [h \in HookIds |-> IdleHook]
  /\ held = [r \in ReqIds |-> [p \in ProductIds |-> 0]]
  /\ stock0 = [p \in Products |-> inv[p].stock_quantity]
  /\ settled = {}
  /\ log = [t \in Topics |-> <<>>]
  /\ grp = [t \in Topics |-> [created |-> FALSE, last_delivered |-> 0]]
  /\ pel = {}
  /\ worker = [c \in Workers |-> IdleWorker]
  /\ faults = 0
  /\ delivered = {}
  /\ handled = {}
  /\ threw = {}
  /\ acks = {}
  /\ answer = NoAnswer

NextAccess == GetOrder \/ InitiatePayment

SpecAccess == InitAccess /\ [][NextAccess]_<<vars, avars>>

\* services calling the ledger, each with the token it carries
NextInternal == LedgerRequest

SpecInternal == Init /\ [][NextInternal]_<<vars, avars>>

NextToken == SignToken \/ AlterToken \/ VerifyToken

SpecToken == Init /\ [][NextToken]_<<vars, avars>>

\* the saga over more than a day: keys of answered deliveries may expire
NextTtl == Next \/ \E id \in PaymentIds : KeyExpires(id)

SpecTtl == Init /\ [][NextTtl]_vars

\* ------------------------------------------------------------------ claims
HeldTotal(p) == SumOver(ReqIds, [r \in ReqIds |-> held[r][p]])

Done(r) == req[r].pc = "done"

\* C1: no oversell.  For every product the quantities granted by Reserve and
\* not given back never exceed stock_quantity, and reserved_quantity is exactly
\* their sum, so each grant fitted into the stock at the instant it was made.
NoOversell ==
  \A p \in Products :
    /\ HeldTotal(p) <= inv[p].stock_quantity
    /\ inv[p].reserved_quantity = HeldTotal(p)

NoOversellWitness ==
  \E p \in Products : \E r1, r2 \in ReqIds :
    /\ r1 # r2 /\ held[r1][p] > 0 /\ Done(r2)
    /\ req[r2].outcome = "INSUFFICIENT_STOCK" /\ held[r2][p] = 0
    /\ \E i \in 1..Len(req[r2].items) : req[r2].items[i].productId = p

\* C2 (scenario A): stock 5, nothing reserved, two requests that each reserve
\* 3 of the same product and no third request: once both Reserve calls have
\* answered, exactly one was granted and reserved_quantity is 3.
Asks(r, p, q) == req[r].items = <<[productId |-> p, quantity |-> q]>>
Granted(r) ==
  \/ req[r].pc \in {"insertOrder", "insertItems", "publish"}
  \/ Done(r) /\ req[r].outcome = "CREATED"
Refused(r) == Done(r) /\ req[r].outcome = "INSUFFICIENT_STOCK"
Race(r1, r2, p) ==
  /\ r1 # r2 /\ stock0[p] = 5 /\ Asks(r1, p, 3) /\ Asks(r2, p, 3)
  /\ Granted(r1) \/ Refused(r1)
  /\ Granted(r2) \/ Refused(r2)
  /\ \A r3 \in ReqIds \ {r1, r2} : req[r3].pc = "idle"

ScenarioA ==
  \A p \in Products : \A r1, r2 \in ReqIds :
    Race(r1, r2, p) =>
      /\ Granted(r1) # Granted(r2)
      /\ Refused(r1) # Refused(r2)
      /\ inv[p].reserved_quantity = 3

ScenarioAWitness ==
  \E p \in Products : \E r1, r2 \in ReqIds :
    Race(r1, r2, p) /\ Granted(r1) /\ Refused(r2)

\* C4: when CreateOrder has answered INSUFFICIENT_STOCK, nothing that the
\* attempt reserved is still held.
InsufficientStockReleased ==
  \A r \in ReqIds :
    Done(r) /\ req[r].outcome = "INSUFFICIENT_STOCK" =>
      \A p \in Products : held[r][p] = 0

ErrorAfterReserveCompensated ==
  \A r \in ReqIds :
    Done(r) /\ req[r].status >= 400 /\ req[r].outcome # "INSUFFICIENT_STOCK" =>
      \/ \A p \in Products : held[r][p] = 0
      \/ req[r].orderId # 0 /\ orders[req[r].orderId].status = "pending"

\* C3: every inventory record has stock_quantity >= 0, reserved_quantity >= 0
\* and reserved_quantity <= stock_quantity.
LedgerInvariant ==
  \A p \in Products :
    /\ inv[p].stock_quantity >= 0
    /\ inv[p].reserved_quantity >= 0
    /\ inv[p].reserved_quantity <= inv[p].stock_quantity

HookDone(h) == hook[h].pc = "done"
Replayed(h) == HookDone(h) /\ hook[h].result = "already_processed"
CapturedEntries(id) ==
  Cardinality({i \in 1..Len(stream["PAYMENT"]) :
                 /\ stream["PAYMENT"][i].type = "PAYMENT_CAPTURED"
                 /\ stream["PAYMENT"][i].paymentId = id})

Delivered(id) == {h \in HookIds : hook[h].id = id}
Passed(id) == {h \in Delivered(id) : ~Replayed(h)}

ExactlyOnePasses ==
  \A id \in PaymentIds :
    Delivered(id) # {} =>
      /\ Cardinality(Passed(id)) = 1
      /\ \A h \in Delivered(id) \ Passed(id) : ~hook[h].acted

ExactlyOnePassesWitness ==
  \E h1, h2 \in HookIds :
    /\ hook[h1].pc \in {"inventory", "publish"} /\ hook[h1].acted
    /\ Replayed(h2) /\ hook[h2].id = hook[h1].id

\* C9: a webhook whose signature is missing or does not verify is answered
\* 400 or 403.
InvalidSignatureRejected ==
  \A h \in HookIds :
    HookDone(h) /\ hook[h].result \in {"Missing signature", "Invalid signature",
                                       "RangeError"} =>
      hook[h].status \in {400, 403}

\* C10: once the signature verified and the key is set, the answer is 200.
AlwaysAcknowledged ==
  \A h \in HookIds : HookDone(h) /\ hook[h].id # "" => hook[h].status = 200

\* the entries a worker has been given and has not finished with
InHand(c) ==
  IF worker[c].pc \in {"handle", "ack"}
  THEN {worker[c].batch[i] : i \in worker[c].idx..Len(worker[c].batch)}
  ELSE {}

Appended(t, i) == i <= Len(log[t])

\* C17: an entry whose handler threw stays outstanding and is delivered
\* again, so that it is in the end processed and acknowledged (the handler
\* does succeed when tried again: failures are bounded).
UnackedRetried ==
  \A t \in Topics : \A i \in 1..MaxEntries : \A c \in Workers :
    (<<t, i, c>> \in threw) ~> (\E c2 \in Workers : <<t, i, c2>> \in acks)

\* C18: an entry is acknowledged only by a delivery whose handler returned;
\* a delivery whose handler threw never acknowledges it.
AckOnlyAfterSuccess ==
  /\ acks \subseteq handled
  /\ acks \cap threw = {}

AckOnlyAfterSuccessWitness ==
  \E d1 \in acks : \E d2 \in threw :
    /\ d1[3] = d2[3] /\ d2 \in pel /\ d1 \notin pel
    /\ worker[d1[3]].pc = "read"

\* C19: an entry is in the hands of at most one worker of the group at a time
\* and pending under at most one name, and every appended entry is handed to
\* some worker.
CompetingConsumers ==
  /\ [](\A c1, c2 \in Workers :
          c1 # c2 =>
            /\ InHand(c1) \cap InHand(c2) = {}
            /\ \A x \in pel : x[3] = c1 => <<x[1], x[2], c2>> \notin pel)
  /\ \A t \in Topics : \A i \in 1..MaxEntries :
       Appended(t, i) ~> (\E c \in Workers : <<t, i, c>> \in delivered)

CompetingConsumersWitness ==
  \E c1, c2 \in Workers : \E t \in Topics :
    /\ c1 # c2
    /\ \E e \in InHand(c1) : e[1] = t
    /\ \E e \in InHand(c2) : e[1] = t
    /\ \A i \in 1..Len(log[t]) : \E c \in Workers : <<t, i, c>> \in delivered

\* C20: a step only appends to a topic: the entries already there stay as
\* they are, and a new entry's id is above every id the topic already holds.
AppendOnlyLog ==
  [][\A t \in Topics :
       /\ Len(log'[t]) >= Len(log[t])
       /\ SubSeq(log'[t], 1, Len(log[t])) = log[t]
       /\ \A i \in (Len(log[t]) + 1)..Len(log'[t]) :
            /\ log'[t][i].id > 0
            /\ \A j \in 1..Len(log[t]) : log'[t][i].id > log[t][j].id]_cvars

AppendOnlyLogWitness ==
  /\ \A t \in Topics : Len(log[t]) = MaxEntries
  /\ \E d \in acks : d[2] = 1
  /\ \E d \in threw : d[2] = MaxEntries

\* quantity of product p in the request's items
Ordered(r, p) ==
  SumSeq([i \in 1..Len(req[r].items) |->
            IF req[r].items[i].productId = p THEN req[r].items[i].quantity ELSE 0])

Created(r) == Done(r) /\ req[r].outcome = "CREATED"

\* no other webhook got past the signature check
OnlyHook(h) ==
  \A h2 \in HookIds \ {h} :
    hook[h2].pc = "idle" \/ (HookDone(h2) /\ hook[h2].id = "")

\* the webhook was answered 200 "processed" after acting on an order
Settled(h, event) ==
  /\ HookDone(h) /\ hook[h].event = event /\ hook[h].acted
  /\ hook[h].status = 200 /\ hook[h].result = "processed"

PaymentRows(id, status) ==
  {i \in 1..Len(payments) :
     payments[i].razorpay_payment_id = id /\ payments[i].status = status}

FailedEntries(o) ==
  {i \in 1..Len(stream["PAYMENT"]) :
     /\ stream["PAYMENT"][i].type = "PAYMENT_FAILED"
     /\ stream["PAYMENT"][i].orderId = o}

\* C11 (round trip): after CreateOrder answered 201 and the one
\* payment.captured webhook for the order was processed, the order is
\* confirmed, stock_quantity is lower by the ordered quantity and
\* reserved_quantity is what it was before the order.
RoundTrip ==
  \A r \in ReqIds : \A h \in HookIds :
    Created(r) /\ Settled(h, "payment.captured") /\ OnlyHook(h) =>
      /\ orders[req[r].orderId].status = "confirmed"
      /\ \A p \in Products :
           /\ inv[p].stock_quantity = stock0[p] - Ordered(r, p)
           /\ inv[p].reserved_quantity = HeldTotal(p) - held[r][p]

\* C12: whatever webhooks are delivered, stock_quantity never goes down by
\* more than the quantities ordered: no order is deducted twice.
DeductAtMostOnce ==
  \A p \in Products :
    inv[p].stock_quantity >=
      stock0[p] - SumOver(ReqIds, [r \in ReqIds |-> Ordered(r, p)])

\* C13: after the first payment.captured webhook for an order was processed
\* and its entry appended, the order is confirmed, there is exactly one
\* payment row of that payment id and its status is successful, and there is
\* exactly one PAYMENT_CAPTURED entry of that payment id.
CapturedEffects ==
  \A r \in ReqIds : \A h \in HookIds :
    Created(r) /\ Settled(h, "payment.captured") /\ OnlyHook(h)
      /\ hook[h].emitted =>
      /\ orders[req[r].orderId].status = "confirmed"
      /\ Cardinality(PaymentRows(hook[h].id, "successful")) = 1
      /\ Cardinality({i \in 1..Len(payments) :
                        payments[i].razorpay_payment_id = hook[h].id}) = 1
      /\ CapturedEntries(hook[h].id) = 1

\* C14: after the first payment.failed webhook for a pending order was
\* processed and its entry appended, the order is failed, reserved_quantity
\* is back at its value before the order, stock_quantity is unchanged, and
\* there is exactly one PAYMENT_FAILED entry for the order.
FailedEffects ==
  \A r \in ReqIds : \A h \in HookIds :
    Created(r) /\ Settled(h, "payment.failed") /\ OnlyHook(h)
      /\ hook[h].emitted =>
      /\ orders[req[r].orderId].status = "failed"
      /\ \A p \in Products :
           /\ inv[p].reserved_quantity = HeldTotal(p) - held[r][p]
           /\ inv[p].stock_quantity = stock0[p]
      /\ Cardinality(FailedEntries(req[r].orderId)) = 1

\* C15: the total_amount of an order that CreateOrder answered with equals
\* the sum of unit_price x quantity over the order's stored items, and each
\* stored unit_price is the price fetched from the products table.
TotalMatchesItems ==
  \A r \in ReqIds :
    Created(r) =>
      LET o == orders[req[r].orderId]
      IN /\ o.total_amount =
              SumSeq([i \in 1..Len(o.order_items) |->
                        o.order_items[i].unit_price * o.order_items[i].quantity])
         /\ \A i \in 1..Len(o.order_items) :
              o.order_items[i].unit_price = UnitPrice(o.order_items[i].product_id)

\* C16: a request naming a product that is missing or not active never gets
\* past validation, and the step that answers INVALID_PRODUCTS changes no
\* inventory row, order or stream (so Reserve was not called).
InvalidProductsRejected ==
  /\ [](\A r \in ReqIds :
          /\ \A i \in 1..Len(req[r].items) :
               /\ req[r].items[i].productId \in ProductIds
               /\ products[req[r].items[i].productId].is_active
          /\ req[r].outcome = "INVALID_PRODUCTS" =>
               /\ req[r].status = 400 /\ req[r].orderId = 0
               /\ \A p \in Products : held[r][p] = 0)
  /\ [][\A r \in ReqIds :
          req[r].outcome # "INVALID_PRODUCTS" /\ req'[r].outcome = "INVALID_PRODUCTS"
            => UNCHANGED <<inv, orders, stream, held>>]_vars

InvalidProductsRejectedWitness ==
  \E r1, r2 \in ReqIds :
    /\ Done(r1) /\ req[r1].outcome = "INVALID_PRODUCTS"
    /\ Created(r2) /\ \E p \in Products : inv[p].reserved_quantity > 0

Stored(id) == id \in 1..Len(orders)

Owns(u, id) == Stored(id) /\ orders[id].user_id = u

\* an id that is in no row of the orders table
MissingId == NumStored + 1

\* C21: GetOrder hands out an order only to its owner or to an admin, and
\* anyone else gets exactly the answer given for an id that does not exist
GetOrderOwnerOrAdmin ==
  answer.op = "GetOrder" =>
    /\ answer.response.status = 200 =>
         /\ Stored(answer.id)
         /\ Owns(answer.requester, answer.id) \/ answer.isAdmin
         /\ answer.response.data.user_id = orders[answer.id].user_id
    /\ ~(Owns(answer.requester, answer.id) \/ answer.isAdmin) =>
         /\ answer.response = NotFound
         /\ answer.response =
              GetOrderAnswer(MissingId, answer.requester, answer.isAdmin)

GetOrderOwnerOrAdminWitness ==
  /\ answer.op = "GetOrder"
  /\ Stored(answer.id)
  /\ ~Owns(answer.requester, answer.id)
  /\ ~answer.isAdmin
  /\ answer.response.status = 404

Genuine(token, now) ==
  /\ token.present
  /\ token.encoded.kind = "json"
  /\ token.signature # <<>>
  /\ HexDecode(token.signature) = HexDecode(TokenSig(token.encoded))
  /\ now <= token.encoded.exp

UnansweredCallCompensated ==
  [][\A r \in ReqIds :
       req[r].pc = "reserve" /\ req'[r].pc = "done"
         /\ req'[r].outcome = "UNHANDLED"
       => \A p \in Products : held'[r][p] = 0]_vars

InProgress(id) == \E h \in HookIds : hook[h].id = id /\ ~HookDone(h) /\ hook[h].pc # "idle"

\* C25: when the key of a payment id is set and no delivery of that id is
\* being handled, the effects of its event are all there: a delivery that
\* applied one of them (order status, payment row, Deduct or Release) has
\* applied them all, the entry in the event log included
KeyMeansEffectsApplied ==
  \A h \in HookIds :
    /\ HookDone(h) /\ hook[h].id \in idem /\ ~InProgress(hook[h].id)
    /\ ~Replayed(h) /\ hook[h].acted
    => hook[h].emitted /\ hook[h].status = 200

\* C26: the amount of a captured payment is validated against the order: a
\* captured event whose amount is not the stored total does not confirm the
\* order, so every payment row recorded for an order carries that order's
\* total_amount
AmountValidated ==
  \A i \in 1..Len(payments) :
    payments[i].amount = orders[payments[i].order_id].total_amount

\* C27: for each order the webhook path applies at most one settlement:
\* never both a Release and a Deduct of the order's items
OneSettlementPerOrder ==
  \A o \in 1..Len(orders) :
    ~(<<o, "deduct">> \in settled /\ <<o, "release">> \in settled)

\* C28: the webhook path changes the status of an order only when that
\* status is pending: confirmed never becomes failed, failed never confirmed
StatusOnlyFromPending ==
  [][\A o \in 1..Len(orders) :
       orders'[o].status # orders[o].status => orders[o].status = "pending"]_vars

\* the quantity of product p in the stored items of order o
StoredQty(o, p) ==
  SumSeq([i \in 1..Len(orders[o].order_items) |->
            IF orders[o].order_items[i].product_id = p
            THEN orders[o].order_items[i].quantity ELSE 0])

Quiescent ==
  /\ \A r \in ReqIds : req[r].pc \in {"idle", "done"}
  /\ \A h \in HookIds : hook[h].pc \in {"idle", "done"}

\* C29 (conservation): when no CreateOrder and no webhook is in flight, the
\* reserved_quantity of each product is the sum of its quantities over the
\* items of the orders that are pending
ReservationConservation ==
  Quiescent =>
    \A p \in Products :
      inv[p].reserved_quantity =
        SumSeq([o \in 1..Len(orders) |->
                  IF orders[o].status = "pending" THEN StoredQty(o, p) ELSE 0])

\* C30: an order that CreateOrder answered 201 for has its items stored, with
\* the quantities that were reserved for the request
NoPartialWrite ==
  \A r \in ReqIds :
    Created(r) =>
      /\ orders[req[r].orderId].order_items # <<>>
      /\ \A p \in Products : StoredQty(req[r].orderId, p) = held[r][p]

RowsOf(id) == {i \in 1..Len(payments) : payments[i].razorpay_payment_id = id}

\* C31: the effects of a payment id happen at most once over all its
\* deliveries, a redelivery after the key's TTL included: one payment row and
\* one PAYMENT_CAPTURED entry at most
OncePerPaymentId ==
  \A id \in PaymentIds :
    /\ Cardinality(RowsOf(id)) <= 1
    /\ CapturedEntries(id) <= 1

\* C32: a handler that throws stops nothing: the worker goes on with the
\* next entry of the same batch (or polls again after the last one), every
\* entry handed to a worker gets its handler run, and the loop keeps polling
FailureIsolated ==
  /\ [][\A c \in Workers :
          threw' # threw /\ worker[c].pc = "handle" /\ worker'[c] # worker[c] =>
            IF worker[c].idx < Len(worker[c].batch)
            THEN /\ worker'[c].pc = "handle"
                 /\ worker'[c].batch = worker[c].batch
                 /\ worker'[c].idx = worker[c].idx + 1
            ELSE worker'[c].pc = "read"]_cvars
  /\ \A t \in Topics : \A i \in 1..MaxEntries : \A c \in Workers :
       (<<t, i, c>> \in delivered) ~> (<<t, i, c>> \in handled \cup threw)
  /\ \A c \in Workers : (worker[c].pc = "handle") ~> (worker[c].pc = "read")

FailureIsolatedWitness ==
  \E c \in Workers : \E i, j \in 1..(2 * BatchCount) :
    /\ i < j /\ j = worker[c].idx /\ j <= Len(worker[c].batch)
    /\ worker[c].pc = "ack"
    /\ worker[c].batch[i][1] # worker[c].batch[j][1]
    /\ <<worker[c].batch[i][1], worker[c].batch[i][2], c>> \in threw
    /\ <<worker[c].batch[j][1], worker[c].batch[j][2], c>> \in handled

\* C33: ORDER_CREATED is appended only once the order row is stored with
\* status pending, at most once per order, with that row's id, user and
\* total, and only for a CreateOrder that answers 201
OrderCreatedAfterPersist ==
  /\ [](\A i \in 1..Len(stream["ORDER"]) :
          LET e == stream["ORDER"][i]
          IN /\ e.type = "ORDER_CREATED"
             /\ e.orderId \in 1..Len(orders)
             /\ e.userId = orders[e.orderId].user_id
             /\ e.totalAmount = orders[e.orderId].total_amount
             /\ \A j \in 1..Len(stream["ORDER"]) :
                  j # i => stream["ORDER"][j].orderId # e.orderId
             /\ \E r \in ReqIds : Created(r) /\ req[r].orderId = e.orderId)
  /\ [][Len(stream'["ORDER"]) > Len(stream["ORDER"]) =>
          LET e == stream'["ORDER"][Len(stream'["ORDER"])]
          IN /\ e.orderId \in 1..Len(orders)
             /\ orders[e.orderId].status = "pending"]_vars

OrderCreatedAfterPersistWitness ==
  /\ Len(stream["ORDER"]) = 1
  /\ \E r1, r2 \in ReqIds :
       /\ Created(r1) /\ Created(r2) /\ r1 # r2
       /\ stream["ORDER"][1].orderId = req[r2].orderId
       /\ req[r2].orderId > req[r1].orderId

\* C34: publishing never throws: the step that publishes ends CreateOrder
\* with 201 and the created order, and ends the webhook with 200 processed,
\* whether or not the entry was appended, and it changes nothing else: the
\* order stays stored and its reservation held
PublishNeverThrows ==
  [][/\ \A r \in ReqIds :
          req[r].pc = "publish" /\ req'[r].pc = "done" =>
            /\ req'[r].outcome = "CREATED" /\ req'[r].status = 201
            /\ req'[r].orderId = req[r].orderId
            /\ req'[r].orderId \in 1..Len(orders')
            /\ orders' = orders /\ inv' = inv /\ held' = held
     /\ \A h \in HookIds :
          hook[h].pc = "publish" /\ hook'[h].pc = "done" =>
            /\ hook'[h].status = 200 /\ hook'[h].result = "processed"
            /\ orders' = orders /\ payments' = payments /\ inv' = inv
            /\ idem' = idem]_vars

PublishNeverThrowsWitness ==
  /\ stream["ORDER"] = <<>> /\ stream["PAYMENT"] = <<>>
  /\ \E r \in ReqIds : Created(r) /\ \E p \in Products : inv[p].stock_quantity < stock0[p]
  /\ \E h \in HookIds :
       HookDone(h) /\ hook[h].result = "processed" /\ hook[h].acted /\ ~hook[h].emitted

\* C35: in the captured path the entry is appended last: when a
\* PAYMENT_CAPTURED entry is appended for an order, the status of that order
\* has been set (it is pending no more) and the Deduct of its items has run
CapturedAppendedLast ==
  [][Len(stream'["PAYMENT"]) > Len(stream["PAYMENT"]) =>
       LET e == stream'["PAYMENT"][Len(stream'["PAYMENT"])]
       IN e.type = "PAYMENT_CAPTURED" =>
            /\ orders[e.orderId].status # "pending"
            /\ orders[e.orderId].order_items # <<>> =>
                 <<e.orderId, "deduct">> \in settled]_vars

UnmatchedWebhookNoEffect ==
  [][\A h \in HookIds :
       /\ (hook[h].pc = "idle" /\ hook'[h].pc = "lookup") =>
            /\ hook'[h].id \in idem'
            /\ UNCHANGED <<inv, orders, payments, stream>>
       /\ (/\ hook[h].pc = "lookup"
           /\ hook'[h] # hook[h]
           /\ \/ hook[h].event \notin {"payment.captured", "payment.failed"}
              \/ \A o \in 1..Len(orders) :
                   orders[o].razorpay_order_id # hook[h].order_id) =>
            /\ hook'[h].pc = "done"
            /\ hook'[h].status = 200
            /\ hook'[h].result = "processed"
            /\ ~hook'[h].acted
            /\ ~hook'[h].emitted
            /\ hook[h].id \in idem'
            /\ UNCHANGED <<inv, orders, payments, stream>>]_vars

\* one webhook of another event type and one captured webhook that arrived
\* while an order existed with a different razorpay order id were both
\* answered 200 "processed" without any effect
UnmatchedWebhookNoEffectWitness ==
  /\ \E h \in HookIds :
       /\ HookDone(h) /\ hook[h].event = "payment.authorized"
       /\ hook[h].status = 200 /\ hook[h].result = "processed"
       /\ hook[h].id \in idem
  /\ \E h \in HookIds :
       /\ HookDone(h) /\ hook[h].event = "payment.captured"
       /\ hook[h].status = 200 /\ hook[h].result = "processed"
       /\ ~hook[h].acted
       /\ hook[h].id \in idem
  /\ Len(orders) = 1
  /\ orders[1].status = "pending"
  /\ orders[1].order_items # <<>>
  /\ payments = <<>>
  /\ stream["PAYMENT"] = <<>>

\* C38: in every reachable state each order row's status is one of pending,
\* confirmed, shipped, delivered, failed, cancelled, refunded and each payment
\* row's status is one of initiated, successful, failed, refunded.
StatusDomains ==
  /\ \A o \in 1..Len(orders) :
       orders[o].status \in {"pending", "confirmed", "shipped", "delivered",
                             "failed", "cancelled", "refunded"}
  /\ \A i \in 1..Len(payments) : payments[i].status \in PaymentStatuses

\* C39: a token made by signInternalToken at time iat is accepted by
\* verifyInternalToken, which returns the signed payload, at every time
\* now <= exp = iat + TokenTtl and rejected at every later time; a token whose
\* payload part or signature part was changed after signing is rejected at
\* every time.
InternalTokenRoundTrip ==
  answer.op = "verified" =>
    /\ (answer.message = "ok") <=>
         (~answer.altered /\ answer.now <= answer.iat + TokenTtl)
    /\ answer.message = "ok" =>
         answer.token.encoded = SignInternalToken(answer.iat).encoded

====
